---- MODULE Spec2Model ----
(***************************************************************************)
(* A model of src/app.py (Flaix, a Streamlit financial assistant): the     *)
(* operation registry API_ENDPOINTS, call_api_by_name and call_indian_api, *)
(* the orchestrator's extraction of a routing decision from the raw        *)
(* classification text, and the chat turn handler that appends to          *)
(* st.session_state.messages.                                              *)
(*                                                                         *)
(* Texts are sequences of tokens.  A Python dict is a sequence of          *)
(* <<key, value>> pairs with distinct keys, in insertion order.            *)
(***************************************************************************)
EXTENDS Integers, Sequences, FiniteSets, TLC

VARIABLES
    messages,             \* st.session_state.messages
    displayed,            \* what the display loop (lines 253-259) wrote on the last script run
    pc,                   \* position of the script inside the turn handler
    prompt,               \* the query returned by st.chat_input
    decision_text,        \* response.text of the classification call
    json_str,             \* the text the orchestrator hands to json.loads
    decision,             \* the orchestrator's return value
    api_result,           \* return value of call_api_by_name
    api_context,          \* the data-context annotation, "" when absent
    user_query,           \* the text of the last Content sent for generation
    conversation_history, \* the lines of the "Previous conversation" block
    system_message,       \* the text of the first Content sent for generation
    full_response,        \* the fragments accumulated so far
    requests,             \* the GET requests call_indian_api has issued in this run
    genCalls,             \* calls of generate_content_stream made in this run
    calls,                \* observer: the external calls of this run, in order
    turnStart,            \* observer: messages when the query was received
    failedAfter,          \* observer: fragments accumulated when generation failed, -1 if it has not
    turns                 \* observer: completed turns

vars == <<messages, displayed, pc, prompt, decision_text, decision, api_result,
          api_context, user_query, conversation_history, system_message,
          full_response, requests, genCalls, turnStart, failedAfter, turns,
          json_str, calls>>

----------------------------------------------------------------------------
(* Bounds *)

MaxTurns == 3
MaxChunks == 2

----------------------------------------------------------------------------
(* Python dicts: sequences of <<key, value>> pairs *)

EmptyDict == <<>>

Keys(d) == {d[i][1] : i \in 1..Len(d)}

Has(d, k) == k \in Keys(d)

Lookup(d, k) == d[CHOOSE i \in 1..Len(d) : d[i][1] = k][2]

\* d.get(k, default)
Get(d, k, default) == IF Has(d, k) THEN Lookup(d, k) ELSE default

\* d[k] = v: an existing key keeps its place, a new key goes last
Put(d, k, v) ==
    IF Has(d, k)
    THEN [i \in 1..Len(d) |-> IF d[i][1] = k THEN <<k, v>> ELSE d[i]]
    ELSE Append(d, <<k, v>>)

----------------------------------------------------------------------------
(* The operation registry *)

ApiNames ==
    {"get_stock_details", "get_trending_stocks", "get_market_news",
     "get_mutual_funds", "get_ipo_data", "get_bse_most_active",
     "get_nse_most_active", "get_historical_data"}

NoParamApi(path) ==
    [endpoint |-> path, required_params |-> <<>>, param_mapping |-> EmptyDict,
     default_values |-> EmptyDict]

API_ENDPOINTS ==
    [n \in ApiNames |->
       CASE n = "get_stock_details" ->
              [endpoint |-> "/stock", required_params |-> <<"stock_name">>,
               param_mapping |-> << <<"stock_name", "name">> >>,
               default_values |-> EmptyDict]
         [] n = "get_trending_stocks" -> NoParamApi("/trending")
         [] n = "get_market_news"     -> NoParamApi("/news")
         [] n = "get_mutual_funds"    -> NoParamApi("/mutual_funds")
         [] n = "get_ipo_data"        -> NoParamApi("/ipo")
         [] n = "get_bse_most_active" -> NoParamApi("/BSE_most_active")
         [] n = "get_nse_most_active" -> NoParamApi("/NSE_most_active")
         [] n = "get_historical_data" ->
              [endpoint |-> "/historical_data", required_params |-> <<"stock_name">>,
               param_mapping |-> EmptyDict,
               default_values |-> << <<"period", "1m">>, <<"filter", "default">> >>]]

\* The results a call can return: parsed JSON of the provider, or {"error": msg}
JsonResult(body) == [tag |-> "json", body |-> body]
ErrorResult(msg) == [tag |-> "error", body |-> msg]
NoResult == [tag |-> "none", body |-> <<>>]

\* Lines 120-122 left out
MissingNone(api_info, kwargs) == <<>>

\* Lines 120-122: the required parameters (in order) that kwargs does not supply
MissingRequired(api_info, kwargs) ==
    SelectSeq(api_info.required_params, LAMBDA p : ~Has(kwargs, p))

\* Lines 126-128 with mapped_name = param
RECURSIVE ApplyMappingNoRename(_, _, _)
ApplyMappingNoRename(api_info, kwargs, n) ==
    IF n = 0 THEN EmptyDict
    ELSE Put(ApplyMappingNoRename(api_info, kwargs, n - 1), kwargs[n][1], kwargs[n][2])

\* The loop of lines 126-128 over the first n items of kwargs
RECURSIVE ApplyMapping(_, _, _)
ApplyMapping(api_info, kwargs, n) ==
    IF n = 0 THEN EmptyDict
    ELSE LET param == kwargs[n][1]
             value == kwargs[n][2]
             mapped_name == Get(api_info.param_mapping, param, param)
         IN  Put(ApplyMapping(api_info, kwargs, n - 1), mapped_name, value)

\* Lines 131-133 without the test of line 132
RECURSIVE ApplyDefaultsOverwrite(_, _, _)
ApplyDefaultsOverwrite(api_info, mapped_params, n) ==
    IF n = 0 THEN mapped_params
    ELSE Put(ApplyDefaultsOverwrite(api_info, mapped_params, n - 1),
             api_info.default_values[n][1], api_info.default_values[n][2])

\* The loop of lines 131-133 over the first n default values
RECURSIVE ApplyDefaults(_, _, _)
ApplyDefaults(api_info, mapped_params, n) ==
    IF n = 0 THEN mapped_params
    ELSE LET before == ApplyDefaults(api_info, mapped_params, n - 1)
             param == api_info.default_values[n][1]
             value == api_info.default_values[n][2]
         IN  IF ~Has(before, param) THEN Put(before, param, value) ELSE before

\* The parameters call_api_by_name hands to call_indian_api
MappedParams(api_info, kwargs) ==
    ApplyDefaults(api_info, ApplyMapping(api_info, kwargs, Len(kwargs)),
                  Len(api_info.default_values))

\* The outcomes of the provider's GET: a JSON body, or an exception in
\* requests.get / response.json
GatewayOutcomes == {JsonResult(<<"payload">>), ErrorResult(<<"transport">>)}

\* call_indian_api: one GET request, returning JSON or {"error": str(e)}
call_indian_api(endpoint, params) ==
    /\ requests' = Append(requests, [endpoint |-> endpoint, params |-> params])
    /\ calls' = Append(calls, "fetch")
    /\ \E r \in GatewayOutcomes : api_result' = r

\* call_api_by_name(api_name, **kwargs)
call_api_by_name(api_name, kwargs) ==
    IF api_name \notin DOMAIN API_ENDPOINTS
    THEN /\ api_result' = ErrorResult(<<"Unknown API: ", api_name>>)
         /\ UNCHANGED <<requests, calls>>
    ELSE LET api_info == API_ENDPOINTS[api_name]
             missing == MissingRequired(api_info, kwargs)
         IN  IF missing # <<>>
             THEN /\ api_result' =
                        ErrorResult(<<"Missing required parameter: ", missing[1]>>)
                  /\ UNCHANGED <<requests, calls>>
             ELSE call_indian_api(api_info.endpoint, MappedParams(api_info, kwargs))

----------------------------------------------------------------------------
(* The orchestrator: from the raw classification text to a decision *)

\* the three-backquote fence marker
FENCE == "<fence>"
JSON_LABEL == "json"
WS == " "
PROSE == "prose"

\* A decision is what json.loads returns: kind is the Python type of the value;
\* for a dict, needs_api / function / params describe the entry under that key.
\*   needs_api: "absent", "true", "false", or "truthy" (a non-boolean such as "yes")
\*   function:  "absent" or the string under "function"
\*   params:    kind "absent", "dict" (items: its pairs) or "list"
ParamsDict(items) == [kind |-> "dict", items |-> items]
ParamsAbsent == [kind |-> "absent", items |-> EmptyDict]
ParamsList == [kind |-> "list", items |-> EmptyDict]

DictDecision(n, f, p) == [kind |-> "dict", needs_api |-> n, function |-> f, params |-> p]
NonDictDecision(k) ==
    [kind |-> k, needs_api |-> "absent", function |-> "absent", params |-> ParamsAbsent]

\* {"needs_api": False}, the value returned by the except branch (line 225)
NeedsApiFalse == DictDecision("false", "absent", ParamsAbsent)

\* The JSON documents of the model, each one token of a text, and their values
JsonDocs ==
    {"[1]", "null",
     "{needs_api:false}", "{}", "{needs_api:true,function:get_nse_most_active,params:{}}",
     "{needs_api:true,function:get_stock_details,params:{stock_name:TCS}}",
     "{needs_api:true,function:get_historical_data,params:{period:1y}}",
     "{needs_api:true,function:get_weather,params:{}}",
     "{needs_api:true,function:get_nse_most_active,params:[1]}",
     "{needs_api:true}", "{needs_api:yes,function:get_trending_stocks}",
     "{needs_api:false,function:get_trending_stocks,params:{}}"}

\* json.loads on a single document
JsonValue(doc) ==
    CASE doc = "{needs_api:false}" -> DictDecision("false", "absent", ParamsAbsent)
      [] doc = "{}" -> DictDecision("absent", "absent", ParamsAbsent)
      [] doc = "{needs_api:true,function:get_nse_most_active,params:{}}" ->
           DictDecision("true", "get_nse_most_active", ParamsDict(EmptyDict))
      [] doc = "{needs_api:true,function:get_stock_details,params:{stock_name:TCS}}" ->
           DictDecision("true", "get_stock_details",
                        ParamsDict(<< <<"stock_name", "TCS">> >>))
      [] doc = "{needs_api:true,function:get_historical_data,params:{period:1y}}" ->
           DictDecision("true", "get_historical_data",
                        ParamsDict(<< <<"period", "1y">> >>))
      [] doc = "{needs_api:true,function:get_weather,params:{}}" ->
           DictDecision("true", "get_weather", ParamsDict(EmptyDict))
      [] doc = "{needs_api:true,function:get_nse_most_active,params:[1]}" ->
           DictDecision("true", "get_nse_most_active", ParamsList)
      [] doc = "{needs_api:true}" -> DictDecision("true", "absent", ParamsAbsent)
      [] doc = "{needs_api:yes,function:get_trending_stocks}" ->
           DictDecision("truthy", "get_trending_stocks", ParamsAbsent)
      [] doc = "{needs_api:false,function:get_trending_stocks,params:{}}" ->
           DictDecision("false", "get_trending_stocks", ParamsDict(EmptyDict))
      [] doc = "[1]" -> NonDictDecision("list")
      [] doc = "null" -> NonDictDecision("NoneType")

\* pat in text
IsAt(text, pat, i) ==
    /\ i + Len(pat) - 1 <= Len(text)
    /\ SubSeq(text, i, i + Len(pat) - 1) = pat

Contains(text, pat) == \E i \in 1..Len(text) : IsAt(text, pat, i)

FirstIndex(text, pat) == CHOOSE i \in 1..Len(text) :
    /\ IsAt(text, pat, i)
    /\ \A j \in 1..(i - 1) : ~IsAt(text, pat, j)

\* text.split(sep)[0]
SplitHead(text, sep) ==
    IF Contains(text, sep) THEN SubSeq(text, 1, FirstIndex(text, sep) - 1) ELSE text

\* the text after the first sep (sep in text)
AfterFirst(text, sep) == SubSeq(text, FirstIndex(text, sep) + Len(sep), Len(text))

\* text.split(sep)[1] (sep in text)
SplitSecond(text, sep) == SplitHead(AfterFirst(text, sep), sep)

\* text.strip()
RECURSIVE LStrip(_)
LStrip(text) ==
    IF text # <<>> /\ Head(text) = WS THEN LStrip(Tail(text)) ELSE text

RECURSIVE RStrip(_)
RStrip(text) ==
    IF text # <<>> /\ text[Len(text)] = WS
    THEN RStrip(SubSeq(text, 1, Len(text) - 1)) ELSE text

Strip(text) == RStrip(LStrip(text))

\* Lines 214-219 with the test for any fence made first
JsonStrAnyFenceFirst(decision_text_) ==
    IF Contains(decision_text_, <<FENCE>>)
    THEN Strip(SplitSecond(decision_text_, <<FENCE>>))
    ELSE Strip(decision_text_)

\* Lines 214-219: the text handed to json.loads
JsonStr(decision_text_) ==
    IF Contains(decision_text_, <<FENCE, JSON_LABEL>>)
    THEN Strip(SplitHead(SplitSecond(decision_text_, <<FENCE, JSON_LABEL>>), <<FENCE>>))
    ELSE IF Contains(decision_text_, <<FENCE>>)
         THEN Strip(SplitSecond(decision_text_, <<FENCE>>))
         ELSE Strip(decision_text_)

\* json.loads succeeds on exactly one document (it ignores surrounding blanks)
JsonParses(json_str_) == Len(Strip(json_str_)) = 1 /\ Strip(json_str_)[1] \in JsonDocs

JsonLoads(json_str_) == JsonValue(Strip(json_str_)[1])

\* Lines 211-225: the parse of the response text, and the fallback
orchestrator(decision_text_) ==
    IF JsonParses(JsonStr(decision_text_))
    THEN JsonLoads(JsonStr(decision_text_))
    ELSE NeedsApiFalse

----------------------------------------------------------------------------
(* The session history and the texts composed from it *)

SYSTEM_PROMPT == <<"persona">>
GREETING == <<"hello">>
APOLOGY == <<"apology">>

UserMessage(content) == [role |-> "user", content |-> content]
ModelMessage(content) == [role |-> "model", content |-> content]

\* Lines 243-246
InitialMessages == <<UserMessage(SYSTEM_PROMPT), ModelMessage(GREETING)>>

\* The queries a user may type; one of them repeats the persona text
Queries == {<<"q1">>, <<"q2">>, SYSTEM_PROMPT}

\* The text fragments a stream may deliver
Fragments == {"a"}

\* Lines 253-259: the chat messages the display loop writes
RECURSIVE DisplayLoop(_)
DisplayLoop(msgs) ==
    IF msgs = <<>> THEN <<>>
    ELSE LET message == Head(msgs)
         IN  IF message.role = "user" /\ message.content # SYSTEM_PROMPT
             THEN <<[as |-> "user", content |-> message.content]>> \o DisplayLoop(Tail(msgs))
             ELSE IF message.role = "model"
                  THEN <<[as |-> "assistant", content |-> message.content]>>
                           \o DisplayLoop(Tail(msgs))
                  ELSE DisplayLoop(Tail(msgs))

\* Line 302: range(1, min(5, len(messages) - 1)), as 1-based indices of messages
HistoryStart == 1
HistoryStop == 5
Min(a, b) == IF a < b THEN a ELSE b

HistoryRange(msgs) == (HistoryStart + 1)..Min(HistoryStop, Len(msgs) - 1)

\* Lines 303-306 without the comparison with SYSTEM_PROMPT
HistoryLineNoFilter(message) ==
    IF message.role = "user"
    THEN <<[label |-> "User", content |-> message.content]>>
    ELSE <<[label |-> "Assistant", content |-> message.content]>>

\* Lines 303-306: the line one message contributes, if any
HistoryLine(message) ==
    IF message.role = "user" /\ message.content # SYSTEM_PROMPT
    THEN <<[label |-> "User", content |-> message.content]>>
    ELSE IF message.role = "model"
         THEN <<[label |-> "Assistant", content |-> message.content]>>
         ELSE <<>>

\* Lines 301-306: the lines for the indices lo..hi
RECURSIVE HistoryLines(_, _, _)
HistoryLines(msgs, lo, hi) ==
    IF lo > hi THEN <<>>
    ELSE HistoryLines(msgs, lo, hi - 1) \o HistoryLine(msgs[hi])

ConversationHistory(msgs) ==
    LET r == HistoryRange(msgs)
    IN  IF r = {} THEN <<>>
        ELSE HistoryLines(msgs, HistoryStart + 1, Min(HistoryStop, Len(msgs) - 1))

\* Lines 298-308
HistoryThreshold == 2
NoPrevious == [present |-> FALSE, lines |-> <<>>]

SystemMessage(msgs) ==
    [base |-> SYSTEM_PROMPT,
     previous |-> IF Len(msgs) > HistoryThreshold
                  THEN [present |-> TRUE, lines |-> ConversationHistory(msgs)]
                  ELSE NoPrevious]

\* Lines 280, 289: api_context, "" or the annotation around json.dumps(api_result)
NoContext == [present |-> FALSE, result |-> NoResult]
\* Line 289 guarded by a test that the result is not an error object
DataContextUnlessError(result) ==
    IF result.tag = "error" THEN NoContext ELSE [present |-> TRUE, result |-> result]

DataContext(result) == [present |-> TRUE, result |-> result]

\* Lines 293-295
UserQuery(prompt_, api_context_) ==
    [prompt |-> prompt_,
     system_note |-> IF api_context_.present THEN api_context_ ELSE NoContext]

NoQuery == [prompt |-> <<>>, system_note |-> NoContext]
NoSystemMessage == [base |-> <<>>, previous |-> NoPrevious]

----------------------------------------------------------------------------
(* The script: one run per interaction *)

\* The raw classification texts the model lets the LLM answer with
Labeled(doc) == <<PROSE, FENCE, JSON_LABEL, WS, doc, WS, FENCE, PROSE>>
Unlabeled(doc) == <<FENCE, WS, doc, WS, FENCE>>
OtherLabel(doc) == <<FENCE, PROSE, WS, doc, WS, FENCE>>

ClassifierTexts ==
    {<<>>, <<PROSE>>}
      \cup {<<doc>> : doc \in JsonDocs}
      \cup {Labeled(doc) : doc \in {"{needs_api:true,function:get_nse_most_active,params:{}}", "[1]"}}
      \cup {Unlabeled(doc) : doc \in {"{needs_api:true,function:get_nse_most_active,params:{}}"}}
      \cup {OtherLabel(doc) : doc \in {"{needs_api:true,function:get_nse_most_active,params:{}}"}}

\* The locals of a script run before the handler sets them
LocalsCleared ==
    /\ decision_text = <<>>
    /\ decision = NeedsApiFalse
    /\ api_result = NoResult
    /\ api_context = NoContext
    /\ user_query = NoQuery
    /\ conversation_history = <<>>
    /\ system_message = NoSystemMessage
    /\ full_response = <<>>
    /\ requests = <<>>
    /\ genCalls = 0
    /\ json_str = <<>>
    /\ calls = <<>>

Init ==
    /\ messages = InitialMessages
    /\ displayed = DisplayLoop(InitialMessages)
    /\ pc = "idle"
    /\ prompt = <<>>
    /\ turnStart = InitialMessages
    /\ failedAfter = -1
    /\ turns = 0
    /\ LocalsCleared

\* Lines 253-264, 273: a rerun with a submitted query: the display loop, then
\* the append of the user message
ReceiveQuery(q) ==
    /\ pc = "idle"
    /\ turns < MaxTurns
    /\ displayed' = DisplayLoop(messages)
    /\ turnStart' = messages
    /\ failedAfter' = -1
    /\ prompt' = q
    /\ messages' = Append(messages, UserMessage(q))
    /\ pc' = "orchestrate"
    /\ UNCHANGED <<decision_text, decision, api_result, api_context, user_query,
                   conversation_history, system_message, full_response, requests,
                   genCalls, turns>>
    /\ UNCHANGED <<json_str, calls>>

\* Line 277, lines 203-225: the classification call raises (outside the try of
\* the orchestrator), or its text is parsed into the decision
Orchestrate ==
    /\ pc = "orchestrate"
    /\ \/ /\ pc' = "except"
          /\ UNCHANGED <<decision_text, json_str, decision>>
       \/ \E t \in ClassifierTexts :
            /\ decision_text' = t
            /\ json_str' = JsonStr(t)
            /\ decision' = orchestrator(t)
            /\ pc' = "route"
    /\ UNCHANGED <<messages, displayed, prompt, api_result, api_context, user_query,
                   conversation_history, system_message, full_response, requests,
                   genCalls, turnStart, failedAfter, turns>>
    /\ calls' = Append(calls, "classify")

\* Line 281 without the test of needs_api
NeedsApiAlways(d) == TRUE

\* Truthiness of decision.get("needs_api", False)
NeedsApi(d) == d.needs_api \in {"true", "truthy"}

\* decision.get("function", "")
FunctionName(d) == IF d.function = "absent" THEN "" ELSE d.function

\* Lines 280-290: the use of the decision and the optional data fetch
Route ==
    /\ pc = "route"
    /\ decision_text' = <<>>
    /\ \/ /\ decision.kind # "dict"             \* .get of a list or None raises
          /\ pc' = "except"
          /\ UNCHANGED <<api_result, api_context, requests, calls>>
       \/ /\ decision.kind = "dict"
          /\ ~NeedsApi(decision)
          /\ pc' = "compose"
          /\ UNCHANGED <<api_result, api_context, requests, calls>>
       \/ /\ decision.kind = "dict"
          /\ NeedsApi(decision)
          /\ FunctionName(decision) \notin DOMAIN API_ENDPOINTS
          /\ pc' = "compose"
          /\ UNCHANGED <<api_result, api_context, requests, calls>>
       \/ /\ decision.kind = "dict"
          /\ NeedsApi(decision)
          /\ FunctionName(decision) \in DOMAIN API_ENDPOINTS
          /\ decision.params.kind = "list"      \* **params of a non-mapping raises
          /\ pc' = "except"
          /\ UNCHANGED <<api_result, api_context, requests, calls>>
       \/ /\ decision.kind = "dict"
          /\ NeedsApi(decision)
          /\ FunctionName(decision) \in DOMAIN API_ENDPOINTS
          /\ decision.params.kind # "list"
          /\ call_api_by_name(FunctionName(decision), decision.params.items)
          /\ api_context' = DataContext(api_result')
          /\ pc' = "compose"
    /\ UNCHANGED <<messages, displayed, prompt, decision, user_query,
                   conversation_history, system_message, full_response, genCalls,
                   turnStart, failedAfter, turns>>
    /\ json_str' = <<>>

\* Lines 292-308: the query and the system message sent for generation
Compose ==
    /\ pc = "compose"
    /\ user_query' = UserQuery(prompt, api_context)
    /\ system_message' = SystemMessage(messages)
    /\ conversation_history' = SystemMessage(messages).previous.lines
    /\ pc' = "generate"
    /\ UNCHANGED <<messages, displayed, prompt, decision_text, decision, api_result,
                   api_context, full_response, requests, genCalls, turnStart,
                   failedAfter, turns>>
    /\ UNCHANGED <<json_str, calls>>

\* Lines 342-346: the streaming generation call, which may raise
Generate ==
    /\ pc = "generate"
    /\ genCalls' = genCalls + 1
    /\ \/ pc' = "stream" /\ UNCHANGED failedAfter
       \/ pc' = "except" /\ failedAfter' = Len(full_response)
    /\ UNCHANGED <<messages, displayed, prompt, decision_text, decision, api_result,
                   api_context, user_query, conversation_history, system_message,
                   full_response, requests, turnStart, turns>>
    /\ calls' = Append(calls, "generate")
    /\ UNCHANGED json_str

\* Lines 349-352: one more fragment (a chunk without text changes nothing)
StreamChunk ==
    /\ pc = "stream"
    /\ Len(full_response) < MaxChunks
    /\ \E f \in Fragments : full_response' = Append(full_response, f)
    /\ UNCHANGED <<messages, displayed, pc, prompt, decision_text, decision,
                   api_result, api_context, user_query, conversation_history,
                   system_message, requests, genCalls, turnStart, failedAfter, turns>>
    /\ UNCHANGED <<json_str, calls>>

\* Lines 349, 355: the stream is exhausted
StreamEnd ==
    /\ pc = "stream"
    /\ pc' = "record"
    /\ UNCHANGED <<messages, displayed, prompt, decision_text, decision, api_result,
                   api_context, user_query, conversation_history, system_message,
                   full_response, requests, genCalls, turnStart, failedAfter, turns>>
    /\ UNCHANGED <<json_str, calls>>

\* Lines 349-351: the stream raises (or a chunk's text is None)
StreamFail ==
    /\ pc = "stream"
    /\ pc' = "except"
    /\ failedAfter' = Len(full_response)
    /\ UNCHANGED <<messages, displayed, prompt, decision_text, decision, api_result,
                   api_context, user_query, conversation_history, system_message,
                   full_response, requests, genCalls, turnStart, turns>>
    /\ UNCHANGED <<json_str, calls>>

\* Lines 357-360 with a rollback of the append of line 264
ExceptHandlerDropsQuery ==
    /\ pc = "except"
    /\ full_response' = APOLOGY
    /\ messages' = turnStart
    /\ pc' = "record"
    /\ UNCHANGED <<displayed, prompt, decision_text, decision, api_result,
                   api_context, user_query, conversation_history, system_message,
                   requests, genCalls, turnStart, failedAfter, turns>>
    /\ UNCHANGED <<json_str, calls>>

\* Lines 357-360 with "full_response +=" for "full_response ="
ExceptHandlerKeepsPartial ==
    /\ pc = "except"
    /\ full_response' = full_response \o APOLOGY
    /\ pc' = "record"
    /\ UNCHANGED <<messages, displayed, prompt, decision_text, decision, api_result,
                   api_context, user_query, conversation_history, system_message,
                   requests, genCalls, turnStart, failedAfter, turns>>
    /\ UNCHANGED <<json_str, calls>>

ExceptHandler ==
    /\ pc = "except"
    /\ full_response' = APOLOGY
    /\ pc' = "record"
    /\ UNCHANGED <<messages, displayed, prompt, decision_text, decision, api_result,
                   api_context, user_query, conversation_history, system_message,
                   requests, genCalls, turnStart, failedAfter, turns>>
    /\ UNCHANGED <<json_str, calls>>

\* Line 363 guarded by "if full_response:"
AppendAssistantIfNonEmpty ==
    /\ pc = "record"
    /\ messages' = IF full_response = <<>> THEN messages
                                          ELSE Append(messages, ModelMessage(full_response))
    /\ turns' = turns + 1
    /\ pc' = "idle"
    /\ decision_text' = <<>>
    /\ decision' = NeedsApiFalse
    /\ api_result' = NoResult
    /\ api_context' = NoContext
    /\ user_query' = NoQuery
    /\ conversation_history' = <<>>
    /\ system_message' = NoSystemMessage
    /\ full_response' = <<>>
    /\ requests' = <<>>
    /\ genCalls' = 0
    /\ UNCHANGED <<displayed, prompt, turnStart, failedAfter>>
    /\ json_str' = <<>>
    /\ calls' = <<>>

\* Line 363, and the end of the script run (its locals are gone)
AppendAssistant ==
    /\ pc = "record"
    /\ messages' = Append(messages, ModelMessage(full_response))
    /\ turns' = turns + 1
    /\ pc' = "idle"
    /\ decision_text' = <<>>
    /\ decision' = NeedsApiFalse
    /\ api_result' = NoResult
    /\ api_context' = NoContext
    /\ user_query' = NoQuery
    /\ conversation_history' = <<>>
    /\ system_message' = NoSystemMessage
    /\ full_response' = <<>>
    /\ requests' = <<>>
    /\ genCalls' = 0
    /\ UNCHANGED <<displayed, prompt, turnStart, failedAfter>>
    /\ json_str' = <<>>
    /\ calls' = <<>>

Next ==
    \/ \E q \in Queries : ReceiveQuery(q)
    \/ Orchestrate
    \/ Route
    \/ Compose
    \/ Generate
    \/ StreamChunk
    \/ StreamEnd
    \/ StreamFail
    \/ ExceptHandler
    \/ AppendAssistant

Spec == Init /\ [][Next]_vars

----------------------------------------------------------------------------
(* call_api_by_name on its own: every operation name and every kwargs *)

MaxParams == 2

ParamKeys == {"stock_name", "name", "period", "filter"}
ParamValues == {"TCS", "1y"}
UnregisteredNames == {"get_weather"}

\* The dicts of at most MaxParams entries
KwargsOfLen(n) ==
    {d \in [1..n -> ParamKeys \X ParamValues] :
        \A i, j \in 1..n : i # j => d[i][1] # d[j][1]}

AllKwargs == UNION {KwargsOfLen(n) : n \in 0..MaxParams}

InitResolve ==
    /\ messages = InitialMessages
    /\ displayed = DisplayLoop(InitialMessages)
    /\ pc = "resolve"
    /\ prompt = <<>>
    /\ turnStart = InitialMessages
    /\ failedAfter = -1
    /\ turns = 0
    /\ decision_text = <<>>
    /\ \E n \in ApiNames \cup UnregisteredNames : \E kw \in AllKwargs :
          decision = DictDecision("true", n, ParamsDict(kw))
    /\ api_result = NoResult
    /\ api_context = NoContext
    /\ user_query = NoQuery
    /\ conversation_history = <<>>
    /\ system_message = NoSystemMessage
    /\ full_response = <<>>
    /\ requests = <<>>
    /\ genCalls = 0
    /\ json_str = <<>>
    /\ calls = <<>>

\* One call call_api_by_name(function, **params)
ResolveCall ==
    /\ pc = "resolve"
    /\ call_api_by_name(decision.function, decision.params.items)
    /\ pc' = "resolved"
    /\ UNCHANGED <<messages, displayed, prompt, decision_text, decision, api_context,
                   user_query, conversation_history, system_message, full_response,
                   genCalls, turnStart, failedAfter, turns>>
    /\ UNCHANGED json_str

NextResolve == ResolveCall

SpecResolve == InitResolve /\ [][NextResolve]_vars

----------------------------------------------------------------------------
(* Properties *)

InTurn == pc \in {"orchestrate", "route", "compose", "generate", "stream", "except", "record"}
Composed == pc \in {"generate", "stream", "except", "record"} /\ user_query # NoQuery
TurnDone == pc = "idle" /\ turns > 0

\* C1: every completed turn has appended to the history exactly one user
\* message (the query) followed by exactly one assistant message, whatever the
\* outcome of classification, fetch and generation; while a turn runs no
\* assistant message has been added yet.
C1_OneUserThenOneAssistant ==
    /\ TurnDone =>
         /\ Len(messages) = Len(turnStart) + 2
         /\ SubSeq(messages, 1, Len(turnStart)) = turnStart
         /\ messages[Len(turnStart) + 1] = UserMessage(prompt)
         /\ messages[Len(turnStart) + 2].role = "model"
    /\ InTurn => messages = Append(turnStart, UserMessage(prompt))
    /\ Len(messages) = Len(InitialMessages) + 2 * turns + (IF InTurn THEN 1 ELSE 0)

\* C1 witness: two turns are complete, the first ended by the apology, the
\* second by streamed text.
C1_Witness ==
    /\ TurnDone
    /\ turns = 2
    /\ messages[4] = ModelMessage(APOLOGY)
    /\ messages[6] = ModelMessage(<<"a", "a">>)

\* C2 (as claimed): when the decision asks for data with a registered operation
\* and the gateway returned its error object, the composed prompt carries no
\* data-context annotation and the generation call is still made.
C2_GatewayErrorNoAnnotation ==
    (/\ (Composed \/ pc = "compose")
     /\ NeedsApi(decision)
     /\ FunctionName(decision) \in ApiNames
     /\ requests # <<>>
     /\ api_result.tag = "error")
    => /\ Composed => ~user_query.system_note.present
       /\ pc = "record" => genCalls >= 1

\* C3 (as claimed): when resolution fails (an unregistered operation, or a
\* required parameter missing from the decision's parameters) the composed
\* prompt carries no data-context annotation and no resolution error text.
C3_ResolutionFailureSkipsAugmentation ==
    (/\ Composed
     /\ NeedsApi(decision)
     /\ \/ FunctionName(decision) \notin ApiNames
        \/ /\ FunctionName(decision) \in ApiNames
           /\ decision.params.kind # "list"
           /\ \E i \in 1..Len(API_ENDPOINTS[FunctionName(decision)].required_params) :
                 ~Has(decision.params.items,
                      API_ENDPOINTS[FunctionName(decision)].required_params[i]))
    => ~user_query.system_note.present

\* A well-formed routing decision: a mapping with a boolean needs_api and, when
\* it is true, a function name and a parameters mapping
WellFormedDecision(d) ==
    /\ d.kind = "dict"
    /\ d.needs_api \in {"true", "false"}
    /\ d.needs_api = "true" => (d.function # "absent" /\ d.params.kind = "dict")

\* C4 (as claimed): whatever the raw classification text, the orchestrator
\* returns a well-formed routing decision, and a text that does not hold one
\* well-formed decision object yields exactly {needs_api: false}.
C4_OrchestratorAlwaysWellFormed ==
    pc = "route" =>
       /\ WellFormedDecision(decision)
       /\ ~(/\ JsonParses(JsonStr(decision_text))
            /\ WellFormedDecision(JsonLoads(JsonStr(decision_text))))
          => decision = NeedsApiFalse

\* C5 (as claimed): every turn reaches the streaming generation call before it
\* ends, and the apology is recorded only when generation itself failed.
C5_GenerationAlwaysAttempted ==
    pc = "record" =>
       /\ genCalls >= 1
       /\ full_response = APOLOGY => failedAfter >= 0

PersonaLine == [label |-> "User", content |-> SYSTEM_PROMPT]
GreetingLine == [label |-> "Assistant", content |-> GREETING]

Lines(block) == {block[i] : i \in 1..Len(block)}

ContextCap == HistoryStop - HistoryStart

\* The messages before the current query and after the bootstrap pair
PriorMessages == SubSeq(messages, Len(InitialMessages) + 1, Len(messages) - 1)

\* The latest prior exchanges, at most ContextCap of them
LatestExchanges ==
    LET n == Len(PriorMessages)
        k == Min(2 * ContextCap, n)
    IN  SubSeq(PriorMessages, n - k + 1, n)

\* C7 (as claimed): the context composed for a turn renders the most recent
\* prior exchanges, at most 4, in their order (the greeting line before them is
\* tolerated here).
C7_LatestExchangesIncluded ==
    Composed =>
       LET want == HistoryLines(LatestExchanges, 1, Len(LatestExchanges))
       IN  conversation_history \in {want, <<GreetingLine>> \o want}

\* C8 (as claimed): from the moment the query is received until the fragment
\* sequence is exhausted or has failed, the history is what it was before the
\* turn.
C8_HistoryUntouchedDuringTurn ==
    pc \in {"orchestrate", "route", "compose", "generate", "stream", "except"}
       => messages = turnStart

\* C9: when generation fails, also after fragments were accumulated, the
\* assistant message recorded for the turn is exactly the apology, and it is
\* the only assistant message of the turn.
C9_FailureRecordsOnlyApology ==
    failedAfter >= 0 =>
       /\ pc = "record" => full_response = APOLOGY
       /\ pc = "idle" => messages = turnStart \o <<UserMessage(prompt), ModelMessage(APOLOGY)>>

\* C9 witness: a turn is complete whose stream failed after a fragment.
C9_Witness ==
    /\ pc = "idle"
    /\ failedAfter >= 1

\* C10: call_api_by_name issues no request when validation fails: an
\* unregistered name gives the Unknown API error, and a registered operation
\* with a required parameter absent gives the Missing required parameter error
\* naming that parameter.
C10_NoRequestWhenValidationFails ==
    pc = "resolved" =>
       LET name == decision.function
           kwargs == decision.params.items
       IN  /\ name \notin ApiNames =>
                /\ api_result = ErrorResult(<<"Unknown API: ", name>>)
                /\ requests = <<>>
           /\ name \in ApiNames =>
                LET required == API_ENDPOINTS[name].required_params
                    absent == {i \in 1..Len(required) : ~Has(kwargs, required[i])}
                IN  absent # {} =>
                      /\ requests = <<>>
                      /\ api_result.tag = "error"
                      /\ api_result.body[1] = "Missing required parameter: "
                      /\ \E i \in absent : api_result.body[2] = required[i]

\* C10 witness: get_historical_data was called with period but no stock_name.
C10_Witness ==
    /\ pc = "resolved"
    /\ decision.function = "get_historical_data"
    /\ Keys(decision.params.items) = {"period"}
    /\ requests = <<>>
    /\ api_result.tag = "error"

\* The pairs of a dict, and the provider-facing key of a caller-facing key
Pairs(d) == {d[i] : i \in 1..Len(d)}
ProviderKey(name, key) == Get(API_ENDPOINTS[name].param_mapping, key, key)

\* C11: for each registered operation, a call with exactly its required
\* parameters sends one request to its endpoint whose parameters are the
\* required ones renamed plus all the default values.
C11_RequiredOnlyGivesRenamedPlusDefaults ==
    (/\ pc = "resolved"
     /\ decision.function \in ApiNames
     /\ Keys(decision.params.items) =
           {API_ENDPOINTS[decision.function].required_params[i] :
               i \in 1..Len(API_ENDPOINTS[decision.function].required_params)})
    => LET name == decision.function
           kwargs == decision.params.items
           info == API_ENDPOINTS[name]
       IN  /\ Len(requests) = 1
           /\ requests[1].endpoint = info.endpoint
           /\ Len(requests[1].params) = Cardinality(Keys(requests[1].params))
           /\ Pairs(requests[1].params) =
                 {<<ProviderKey(name, kwargs[i][1]), kwargs[i][2]>> : i \in 1..Len(kwargs)}
                    \cup Pairs(info.default_values)
           /\ (name = "get_historical_data" /\ kwargs = << <<"stock_name", "TCS">> >>)
                 => requests[1] =
                       [endpoint |-> "/historical_data",
                        params |-> << <<"stock_name", "TCS">>, <<"period", "1m">>,
                                      <<"filter", "default">> >>]
           /\ (name = "get_stock_details" /\ kwargs = << <<"stock_name", "TCS">> >>)
                 => requests[1] =
                       [endpoint |-> "/stock", params |-> << <<"name", "TCS">> >>]

\* C11 witness: get_stock_details was resolved with stock_name alone and its
\* request was sent.
C11_Witness ==
    /\ pc = "resolved"
    /\ decision.function = "get_stock_details"
    /\ decision.params.items = << <<"stock_name", "TCS">> >>
    /\ Len(requests) = 1

\* C12 (as claimed): for every supplied parameter set that passes validation,
\* each supplied value is in the final mapping, unchanged, under its
\* provider-facing key.
C12_EverySuppliedValueKept ==
    (pc = "resolved" /\ decision.function \in ApiNames /\ requests # <<>>)
    => \A i \in 1..Len(decision.params.items) :
          LET key == ProviderKey(decision.function, decision.params.items[i][1])
          IN  /\ Has(requests[1].params, key)
              /\ Lookup(requests[1].params, key) = decision.params.items[i][2]

\* C12 (amended): a default is applied only for a provider-facing key that no
\* supplied parameter maps to; each supplied value is in the final mapping
\* under its provider-facing key unless a later supplied parameter maps to the
\* same provider-facing key, whose value is then the one sent.
C12_DefaultsNeverReplaceSupplied ==
    (pc = "resolved" /\ decision.function \in ApiNames /\ requests # <<>>)
    => LET name == decision.function
           kwargs == decision.params.items
           sent == requests[1].params
           supplied == {ProviderKey(name, kwargs[i][1]) : i \in 1..Len(kwargs)}
           defaults == API_ENDPOINTS[name].default_values
       IN  /\ \A i \in 1..Len(kwargs) :
                 (\A j \in (i + 1)..Len(kwargs) :
                     ProviderKey(name, kwargs[j][1]) # ProviderKey(name, kwargs[i][1]))
                 => /\ Has(sent, ProviderKey(name, kwargs[i][1]))
                    /\ Lookup(sent, ProviderKey(name, kwargs[i][1])) = kwargs[i][2]
           /\ \A i \in 1..Len(defaults) :
                 defaults[i][1] \notin supplied
                 => (Has(sent, defaults[i][1]) /\ Lookup(sent, defaults[i][1]) = defaults[i][2])
           /\ Keys(sent) = supplied \cup Keys(defaults)

\* C12 witness: get_historical_data was resolved with an explicit period.
C12_Witness ==
    /\ pc = "resolved"
    /\ decision.function = "get_historical_data"
    /\ decision.params.items = << <<"stock_name", "TCS">>, <<"period", "1y">> >>
    /\ Len(requests) = 1
    /\ Lookup(requests[1].params, "period") = "1y"

----------------------------------------------------------------------------
(* The orchestrator's parse on its own: every text of at most MaxTextLen tokens *)

MaxTextLen == 6

NseDoc == "{needs_api:true,function:get_nse_most_active,params:{}}"
FalseDoc == "{needs_api:false}"
TextDocs == {NseDoc, FalseDoc}
TextAlphabet == {FENCE, JSON_LABEL, WS, PROSE} \cup TextDocs

AllTexts == UNION {[1..n -> TextAlphabet] : n \in 0..MaxTextLen}

InitOrchestrator ==
    /\ messages = InitialMessages
    /\ displayed = DisplayLoop(InitialMessages)
    /\ pc = "classified"
    /\ prompt = <<>>
    /\ turnStart = InitialMessages
    /\ failedAfter = -1
    /\ turns = 0
    /\ decision_text \in AllTexts
    /\ json_str = <<>>
    /\ decision = NeedsApiFalse
    /\ api_result = NoResult
    /\ api_context = NoContext
    /\ user_query = NoQuery
    /\ conversation_history = <<>>
    /\ system_message = NoSystemMessage
    /\ full_response = <<>>
    /\ requests = <<>>
    /\ genCalls = 0
    /\ calls = <<"classify">>

\* Lines 210-225 on the response text
ParseResponse ==
    /\ pc = "classified"
    /\ json_str' = JsonStr(decision_text)
    /\ decision' = orchestrator(decision_text)
    /\ pc' = "parsed"
    /\ UNCHANGED <<messages, displayed, prompt, decision_text, api_result, api_context,
                   user_query, conversation_history, system_message, full_response,
                   requests, genCalls, turnStart, failedAfter, turns, calls>>

NextOrchestrator == ParseResponse

SpecOrchestrator == InitOrchestrator /\ [][NextOrchestrator]_vars

\* The decision parsed from a payload, {needs_api: false} when it is no document
DecisionOf(payload) ==
    IF Len(payload) = 1 /\ payload[1] \in JsonDocs THEN JsonValue(payload[1])
    ELSE NeedsApiFalse

\* The positions of the fence markers of a text, in order
FencePositions(text) ==
    SelectSeq([i \in 1..Len(text) |-> i], LAMBDA i : text[i] = FENCE)

\* Fenced blocks: the fences taken in pairs, the b-th block opened by fence
\* 2b - 1 and closed by fence 2b
NumBlocks(text) == Len(FencePositions(text)) \div 2
BlockOpen(text, b) == FencePositions(text)[2 * b - 1]
BlockClose(text, b) == FencePositions(text)[2 * b]
BlockIsJson(text, b) ==
    /\ BlockOpen(text, b) + 1 < BlockClose(text, b)
    /\ text[BlockOpen(text, b) + 1] = JSON_LABEL
BlockContents(text, b) ==
    SubSeq(text, BlockOpen(text, b) + (IF BlockIsJson(text, b) THEN 2 ELSE 1),
           BlockClose(text, b) - 1)

\* The payload of the rule read over fenced blocks
BlockPayload(text) ==
    LET json == {b \in 1..NumBlocks(text) : BlockIsJson(text, b)}
    IN  IF json # {}
        THEN Strip(BlockContents(text, CHOOSE b \in json : \A c \in json : b <= c))
        ELSE IF NumBlocks(text) >= 1 THEN Strip(BlockContents(text, 1))
             ELSE Strip(text)

\* C13 (as claimed): the decision is parsed from the contents of the fenced
\* block labeled json if the text contains one, else from the contents of the
\* first fenced block if it contains any, else from the whole text trimmed.
C13_PayloadOfFencedBlocks ==
    pc = "parsed" => decision = DecisionOf(BlockPayload(decision_text))

\* The first position at or after i that holds a fence, Len + 1 when none does
NextFence(text, i) ==
    IF \E j \in i..Len(text) : text[j] = FENCE
    THEN CHOOSE j \in i..Len(text) :
            text[j] = FENCE /\ \A k \in i..(j - 1) : text[k] # FENCE
    ELSE Len(text) + 1

\* The first position of a fence directly followed by the word json, 0 when none
FirstJsonMarker(text) ==
    LET at == {i \in 1..(Len(text) - 1) : text[i] = FENCE /\ text[i + 1] = JSON_LABEL}
    IN  IF at = {} THEN 0 ELSE CHOOSE i \in at : \A j \in at : i <= j

\* The payload of the rule read over fence markers
MarkerPayload(text) ==
    IF FirstJsonMarker(text) > 0
    THEN Strip(SubSeq(text, FirstJsonMarker(text) + 2,
                      NextFence(text, FirstJsonMarker(text) + 2) - 1))
    ELSE IF NextFence(text, 1) <= Len(text)
         THEN Strip(SubSeq(text, NextFence(text, 1) + 1,
                           NextFence(text, NextFence(text, 1) + 1) - 1))
         ELSE Strip(text)

\* C13 (amended): if the text contains the marker of a fence labeled json, the
\* payload is what follows its first occurrence up to the next fence marker or
\* the end of the text; else if it contains a fence marker, what lies between
\* the first marker and the second or the end of the text; else the whole
\* text; trimmed in each case.  The same decision object in a json-labeled
\* fence, in an unlabeled fence or unwrapped gives the same decision.
C13_PayloadOfFenceMarkers ==
    pc = "parsed" =>
       /\ json_str = MarkerPayload(decision_text)
       /\ decision = DecisionOf(json_str)
       /\ \A doc \in TextDocs :
             decision_text \in {<<doc>>, <<WS, doc, WS>>, <<FENCE, doc, FENCE>>,
                                <<FENCE, WS, doc, WS, FENCE>>,
                                <<FENCE, JSON_LABEL, doc, FENCE>>,
                                <<FENCE, JSON_LABEL, WS, doc, WS, FENCE>>}
             => decision = JsonValue(doc)

\* C13 witness: an unlabeled block comes before a json-labeled one, and the
\* payload is taken from the json-labeled one.
C13_Witness ==
    /\ pc = "parsed"
    /\ decision_text = <<FENCE, FalseDoc, FENCE, FENCE, JSON_LABEL, NseDoc>>
    /\ json_str = <<NseDoc>>
    /\ decision = JsonValue(NseDoc)

IsPrefix(a, b) == Len(a) <= Len(b) /\ SubSeq(b, 1, Len(a)) = a

\* C14: within a turn the classification call, the optional data fetch and
\* the generation call happen in that order, each at most once, with at most
\* one gateway request; a decision whose needs_api is false leads to no gateway
\* request, and the prompt then holds only the persona, the history and the
\* query.
C14_CallsInOrderOneFetch ==
    /\ \/ IsPrefix(calls, <<"classify", "fetch", "generate">>)
       \/ IsPrefix(calls, <<"classify", "generate">>)
    /\ Len(requests) <= 1
    /\ Len(requests) = Cardinality({i \in 1..Len(calls) : calls[i] = "fetch"})
    /\ genCalls = Cardinality({i \in 1..Len(calls) : calls[i] = "generate"})
    /\ calls # <<>> => InTurn
    /\ (/\ pc \in {"compose", "generate", "stream", "record"}
        /\ decision.kind = "dict"
        /\ decision.needs_api = "false")
       => /\ requests = <<>>
          /\ api_context = NoContext
          /\ Composed =>
                /\ user_query = [prompt |-> prompt, system_note |-> NoContext]
                /\ system_message.base = SYSTEM_PROMPT
                /\ system_message.previous.lines = conversation_history

\* C14 witness: a turn has made the three calls and is reading the stream.
C14_Witness ==
    /\ pc = "stream"
    /\ calls = <<"classify", "fetch", "generate">>
    /\ Len(requests) = 1

\* C15: the history is append-only: every step leaves the history it found as
\* a prefix of the history it leaves, so no entry is removed, reordered or
\* rewritten, and entries 0 and 1 stay the persona prompt and the greeting.
C15_HistoryAppendOnly ==
    [][/\ IsPrefix(messages, messages')
       /\ IsPrefix(InitialMessages, messages')
       /\ pc' = "idle" => IsPrefix(turnStart', messages')]_vars

\* C15 witness: two turns are over, the first failed and the second succeeded,
\* and the history still starts with the bootstrap pair and the first query.
C15_Witness ==
    /\ pc = "idle"
    /\ turns = 2
    /\ Len(messages) = 6
    /\ SubSeq(messages, 1, 2) = InitialMessages
    /\ messages[3] = UserMessage(<<"q1">>)
    /\ messages[4] = ModelMessage(APOLOGY)
    /\ messages[6] = ModelMessage(<<"a">>)

\* C16: a composed prompt carries the data annotation exactly when needs_api
\* of the decision is truthy and its function is a key of API_ENDPOINTS; the
\* annotation holds the result call_api_by_name returned, so a successful fetch
\* always has its JSON in the prompt, and a decision with needs_api false or an
\* unregistered function gives no annotation and no request.
C16_AnnotationIffRegisteredAndNeeded ==
    Composed =>
       LET wanted == /\ decision.kind = "dict"
                     /\ decision.needs_api \in {"true", "truthy"}
                     /\ decision.function \in ApiNames
       IN  /\ user_query.prompt = prompt
           /\ user_query.system_note.present <=> wanted
           /\ wanted => /\ api_result # NoResult
                         /\ user_query.system_note = [present |-> TRUE, result |-> api_result]
           /\ ~wanted => /\ user_query.system_note = NoContext
                          /\ requests = <<>>
           /\ (requests # <<>> /\ api_result.tag = "json")
                 => user_query.system_note.result = api_result

\* C16 witness: a prompt was composed after a fetch that returned JSON.
C16_Witness ==
    /\ Composed
    /\ Len(requests) = 1
    /\ api_result.tag = "json"
    /\ user_query.system_note.present

\* 0-based index i of the history has role user when i is even, model when odd
Alternates(msgs) ==
    \A i \in 1..Len(msgs) :
       msgs[i].role = IF (i - 1) % 2 = 0 THEN "user" ELSE "model"

C18_BlockCappedAndOmittedOnFirstTurn ==
    Composed =>
       /\ Len(conversation_history) <= ContextCap
       /\ \E lo \in 1..Len(messages), hi \in 0..(Len(messages) - 1) :
             conversation_history = HistoryLines(messages, lo, hi)
       /\ turns = 0 => ~system_message.previous.present

====
